---- MODULE Spec2Model ----
(***************************************************************************)
(* The attachment ingestion pipeline of the TaskInputBar component:        *)
(* classification of dropped files, validation, preview reads, the         *)
(* attachment list and its single error slot.                              *)
(*                                                                         *)
(* React state is modelled as follows.  A state variable holds the latest  *)
(* value of a useState hook: a setState call takes effect in program       *)
(* order, and a functional updater receives the latest value.  The         *)
(* variable `rendered` is the value of `attachments` captured by the       *)
(* closures of the last render, which is what an event handler reads when  *)
(* it mentions `attachments` directly.  A user-event handler (drop, click) *)
(* ends with the render React flushes for it; the render that follows the  *)
(* append of an asynchronous continuation is scheduled and is a step of    *)
(* its own.                                                                *)
(***************************************************************************)
EXTENDS Integers, Sequences, FiniteSets, TLC

VARIABLES
    attachments,  \* useState<FileAttachment[]>: latest value of the hook
    rendered,     \* `attachments` as captured by the handlers of the last render
    error,        \* useState<string | null>; NoError is null
    batches,      \* processFiles invocations suspended at a preview read
    dragCounter,  \* dragCounterRef.current
    dragOver,     \* useState(false): the highlighted state
    drops,        \* number of drops that have started a processFiles invocation
    collisions,   \* number of generated ids that may still repeat an earlier id
    hover,        \* elements that got a dragenter and no dragleave since
    notified,     \* the list last passed to onAttachmentsChange
    last          \* history: the operation that produced the current state

vars == <<attachments, rendered, error, batches, dragCounter, dragOver,
          drops, collisions, hover, notified, last>>

----------------------------------------------------------------------------
(* Bounds of the model *)

MaxDrops == 2      \* drops that start a processFiles invocation in one run
MaxInFlight == 2   \* processFiles invocations suspended at the same time
MaxNesting == 2    \* largest distance of the nesting counter from 0

----------------------------------------------------------------------------
(* Program constants *)

MaxFileSize == 10 * 1024 * 1024
MaxFiles == 5
PreviewLimit == 500

----------------------------------------------------------------------------
(* Strings.  A file name is a sequence of one-character strings.  A file   *)
(* content or preview is a sequence of runs [c |-> token, n |-> count],    *)
(* the token repeated count times; its length is the sum of the counts.    *)

UpperCase == <<"A","B","C","D","E","F","G","H","I","J","K","L","M",
               "N","O","P","Q","R","S","T","U","V","W","X","Y","Z">>
LowerCase == <<"a","b","c","d","e","f","g","h","i","j","k","l","m",
               "n","o","p","q","r","s","t","u","v","w","x","y","z">>

toLowerCaseChar(c) ==
    IF \E k \in 1..26 : UpperCase[k] = c
    THEN LowerCase[CHOOSE k \in 1..26 : UpperCase[k] = c]
    ELSE c

toLowerCase(s) == [k \in 1..Len(s) |-> toLowerCaseChar(s[k])]

\* s.split('.').pop(): the part after the last '.', all of s when it has none
splitPop(s) ==
    LET dots == {k \in 1..Len(s) : s[k] = "."}
    IN  IF dots = {} THEN s
        ELSE LET d == CHOOSE k \in dots : \A j \in dots : j <= k
             IN  SubSeq(s, d + 1, Len(s))

RECURSIVE StrLen(_)
StrLen(t) == IF t = <<>> THEN 0 ELSE Head(t).n + StrLen(Tail(t))

\* t.substring(0, k)
RECURSIVE substring0(_, _)
substring0(t, k) ==
    IF t = <<>> \/ k <= 0 THEN <<>>
    ELSE IF Head(t).n <= k
         THEN <<Head(t)>> \o substring0(Tail(t), k - Head(t).n)
         ELSE <<[c |-> Head(t).c, n |-> k]>>

Ellipsis == <<[c |-> ".", n |-> 3]>>

----------------------------------------------------------------------------
(* Files and drop payloads *)

File(name, size, type) == [name |-> name, size |-> size, type |-> type]

\* a text file, read for its preview
FileTxt == File(<<"a", ".", "t", "x", "t">>, 1024, "text/plain")
\* a document of exactly the size limit, admitted without a read
FilePdf == File(<<"d", ".", "p", "d", "f">>, MaxFileSize, "application/pdf")
\* one byte over the limit, and the 11 MiB file of the tests
FileBig == File(<<"b", "i", "g", ".", "p", "d", "f">>, MaxFileSize + 1, "application/pdf")
FileLarge == File(<<"l", "a", "r", "g", "e", ".", "p", "d", "f">>, 11 * 1024 * 1024,
                  "application/pdf")
\* an empty text file: size 0 and a declared type
FileEmpty == File(<<"e", ".", "t", "x", "t">>, 0, "text/plain")
\* an image, read for its preview
FilePng == File(<<"i", ".", "p", "n", "g">>, 2048, "image/png")
\* an archive: no category of its own
FileZip == File(<<"z", ".", "z", "i", "p">>, 4096, "application/zip")
\* text files of exactly the preview limit and of one character more
FileMd == File(<<"m", ".", "m", "d">>, PreviewLimit, "text/markdown")
FileJs == File(<<"c", ".", "j", "s">>, PreviewLimit + 1, "text/javascript")
\* an image whose extension is in upper case
FileUpper == File(<<"P", ".", "P", "N", "G">>, 3072, "image/png")
\* files whose names hold no '.': the names are "pdf" and "png"
FileNoDotPdf == File(<<"p", "d", "f">>, 512, "")
FileNoDotPng == File(<<"p", "n", "g">>, 512, "")
\* what the host hands out for a dropped directory: size 0 and an empty type
FileDir == File(<<"s", "r", "c">>, 0, "")

\* An entry of a drop payload: a file, or a directory (entry.isDirectory)
Entry(file, dir) == [file |-> file, dir |-> dir]

Txt == Entry(FileTxt, FALSE)
Pdf == Entry(FilePdf, FALSE)
Big == Entry(FileBig, FALSE)
Large == Entry(FileLarge, FALSE)
Dir == Entry(FileDir, TRUE)
Empty == Entry(FileEmpty, FALSE)
Png == Entry(FilePng, FALSE)
Zip == Entry(FileZip, FALSE)
Md == Entry(FileMd, FALSE)
Js == Entry(FileJs, FALSE)
Upper == Entry(FileUpper, FALSE)
NoDotPdf == Entry(FileNoDotPdf, FALSE)
NoDotPng == Entry(FileNoDotPng, FALSE)

\* the entry lists a run may drop: single files, a batch with two reads, a
\* file created before a read, batches that fill three and five places at
\* once, and batches with oversized files before a read, after it, and with
\* none
EntrySeqs ==
    {<<Txt>>, <<Pdf>>, <<Txt, Txt>>, <<Pdf, Txt>>, <<Pdf, Pdf, Pdf>>,
     <<Pdf, Pdf, Pdf, Pdf, Pdf>>,
     <<Large>>, <<Big, Txt>>, <<Txt, Big>>, <<Big, Pdf, Large>>}

\* the entry lists of the runs with directories: a directory alone, with a
\* file, with a file to read, after an oversized file, and no directory
FolderSeqs == {<<Dir>>, <<Dir, Pdf>>, <<Dir, Txt>>, <<Big, Dir>>, <<Pdf>>}

\* the entry lists of the runs on file sizes: sizes 0, 1024, the limit, one
\* byte more and 11 MiB
SizeSeqs == {<<Empty>>, <<Pdf>>, <<Empty, Pdf>>, <<Large, Txt>>, <<Big>>, <<Dir, Empty>>}

\* items: whether dataTransfer.items is available (structured inspection)
Payloads == [items : {TRUE}, entries : EntrySeqs]

FolderPayloads == [items : BOOLEAN, entries : FolderSeqs]

SizePayloads == [items : BOOLEAN, entries : SizeSeqs]

\* the entry lists of the runs on preview reads: an image or a text file is
\* read, alone, followed by another read, by a file admitted without a read
\* or by an oversized file, or last of a batch that fills the list
ReadSeqs == {<<Png>>, <<Txt>>, <<Png, Txt>>, <<Txt, Pdf>>, <<Txt, Big, Pdf>>,
             <<Pdf, Pdf, Pdf, Pdf, Txt>>}

ReadPayloads == [items : {TRUE}, entries : ReadSeqs]

\* the entry lists of the runs on progress: a batch without a preview read
\* and a batch with two
LiveSeqs == {<<Pdf>>, <<Png, Txt>>}

LivePayloads == [items : {TRUE}, entries : LiveSeqs]

\* the entry lists of the runs on previews: files of every category, and
\* text files of 0, 500, 501 and 1024 characters
PreviewSeqs == {<<Png>>, <<Zip>>, <<Pdf, Png>>, <<Zip, Txt>>, <<Md>>, <<Js, Empty>>}

PreviewPayloads == [items : {TRUE}, entries : PreviewSeqs]

\* the entry lists of the runs on ids
IdSeqs == {<<Pdf>>, <<Txt>>, <<Pdf, Pdf>>}

IdPayloads == [items : {TRUE}, entries : IdSeqs]

\* the entry lists of the runs on classification: a text file, a code file
\* and an image together, and one file of each other kind of name
ClassifySeqs == {<<Txt, Js, Png>>, <<Md>>, <<Pdf>>, <<Zip>>, <<Upper>>,
                 <<NoDotPdf>>, <<NoDotPng>>}

ClassifyPayloads == [items : {TRUE}, entries : ClassifySeqs]

\* the entry lists of the runs on the submit click
SubmitSeqs == {<<Txt, Txt>>, <<Txt>>, <<Pdf>>}

SubmitPayloads == [items : {TRUE}, entries : SubmitSeqs]

\* the entry lists that end the drag gestures: nothing, a directory, a
\* directory with a file, a file
DragSeqs == {<<>>, <<Dir>>, <<Dir, Pdf>>, <<Pdf>>}

DragPayloads == [items : {TRUE}, entries : DragSeqs]

\* the longest entry list
MaxEntries == 5

\* the content FileReader delivers for a file: `size` one-byte characters
Content(file) == IF file.size = 0 THEN <<>> ELSE <<[c |-> "x", n |-> file.size]>>

----------------------------------------------------------------------------
(* FileClassifier *)

ImageExts == {<<"p","n","g">>, <<"j","p","g">>, <<"j","p","e","g">>, <<"g","i","f">>,
              <<"w","e","b","p">>, <<"s","v","g">>, <<"b","m","p">>}

TextExts == {<<"t","x","t">>, <<"m","d">>, <<"m","a","r","k","d","o","w","n">>,
             <<"j","s","o","n">>, <<"j","s">>, <<"t","s">>, <<"t","s","x">>,
             <<"j","s","x">>, <<"p","y">>, <<"j","a","v","a">>, <<"c","p","p">>,
             <<"c">>, <<"h">>, <<"c","s">>, <<"r","b">>, <<"g","o">>, <<"r","s">>,
             <<"p","h","p">>, <<"s","w","i","f","t">>, <<"k","t">>}

getFileType(fileName) ==
    LET ext == splitPop(toLowerCase(fileName))
    IN  IF ext \in ImageExts THEN "image"
        ELSE IF ext \in TextExts THEN "text"
        ELSE IF ext = <<"p","d","f">> THEN "document"
        ELSE "other"

----------------------------------------------------------------------------
(* Error messages: sequences of strings; null is the empty sequence *)

NoError == <<>>
SizeLimitText == "\" exceeds 10MB limit"
SizeMsg(name) == <<"File \"">> \o name \o <<SizeLimitText>>
CountMsg == <<"Maximum 5 files allowed">>
FoldersOnlyMsg == <<"Folders are not supported, please drop files only">>
FoldersSkippedMsg == <<"Folders were skipped, only files are supported">>

----------------------------------------------------------------------------
(* ValidationGate and PreviewGenerator, as processFiles applies them *)

IsPlaceholder(file) == file.size = 0 /\ file.type = ""

\* the size check with the limit itself refused
TooLarge_AtLimit(file) == file.size >= MaxFileSize

\* the size check with a limit of 11 MiB
TooLarge_ElevenMiB(file) == file.size > 11 * 1024 * 1024

TooLarge(file) == file.size > MaxFileSize

\* the loop that also reads documents
NeedsRead_Documents(file) == getFileType(file.name) \in {"image", "text", "document"}

NeedsRead(file) == getFileType(file.name) \in {"image", "text"}

Undefined == [defined |-> FALSE, text |-> <<>>]
Defined(t) == [defined |-> TRUE, text |-> t]

\* reader.readAsDataURL(file): a self-contained data URL
DataURL(file) ==
    <<[c |-> "data:", n |-> 1], [c |-> file.type, n |-> 1], [c |-> ";base64,", n |-> 1]>>
        \o Content(file)

\* the text preview that is cut and marked from PreviewLimit characters on
TextPreview_AtLimit(t) ==
    IF t # <<>> /\ StrLen(t) >= PreviewLimit
    THEN substring0(t, PreviewLimit) \o Ellipsis
    ELSE t

\* the text preview: the first PreviewLimit characters, marked when cut
TextPreview(t) ==
    IF t # <<>> /\ StrLen(t) > PreviewLimit
    THEN substring0(t, PreviewLimit) \o Ellipsis
    ELSE t

\* the read whose result is dropped
PreviewOf_Dropped(file, ok) == Undefined

\* the read whose failure leaves an empty string in `preview`
PreviewOf_FailedAsEmpty(file, ok) ==
    IF ~ok THEN Defined(<<>>)
    ELSE IF getFileType(file.name) = "image" THEN Defined(DataURL(file))
    ELSE Defined(TextPreview(Content(file)))

\* the preview a completed read leaves in `preview`; ok is the read's outcome
PreviewOf(file, ok) ==
    IF ~ok THEN Undefined
    ELSE IF getFileType(file.name) = "image" THEN Defined(DataURL(file))
    ELSE Defined(TextPreview(Content(file)))

NewAttachment(file, preview, id) ==
    [id |-> id,
     name |-> file.name,
     path |-> file.name,
     type |-> getFileType(file.name),
     preview |-> preview,
     size |-> file.size,
     mimeType |-> IF file.type = "" THEN "application/octet-stream" ELSE file.type]

\* The for loop of processFiles from file i on, up to the next await or the
\* end of the list.  new is newAttachments, err the latest setError value,
\* ids[k] the id generated for file k.
RECURSIVE RunLoop(_, _, _, _, _)

\* the loop that stops at the first oversized file instead of skipping it
RunLoop_Abort(files, i, new, err, ids) ==
    IF i > Len(files) THEN [i |-> i, new |-> new, err |-> err, await |-> FALSE]
    ELSE LET file == files[i]
         IN  IF IsPlaceholder(file) THEN RunLoop(files, i + 1, new, err, ids)
             ELSE IF TooLarge(file)
                  THEN [i |-> Len(files) + 1, new |-> new,
                        err |-> SizeMsg(file.name), await |-> FALSE]
             ELSE IF NeedsRead(file)
                  THEN [i |-> i, new |-> new, err |-> err, await |-> TRUE]
             ELSE RunLoop(files, i + 1,
                          Append(new, NewAttachment(file, Undefined, ids[i])),
                          err, ids)

RunLoop(files, i, new, err, ids) ==
    IF i > Len(files) THEN [i |-> i, new |-> new, err |-> err, await |-> FALSE]
    ELSE LET file == files[i]
         IN  IF IsPlaceholder(file) THEN RunLoop(files, i + 1, new, err, ids)
             ELSE IF TooLarge(file)
                  THEN RunLoop(files, i + 1, new, SizeMsg(file.name), ids)
             ELSE IF NeedsRead(file)
                  THEN [i |-> i, new |-> new, err |-> err, await |-> TRUE]
             ELSE RunLoop(files, i + 1,
                          Append(new, NewAttachment(file, Undefined, ids[i])),
                          err, ids)

\* the count check that lets one file too many through
CountExceeded_OffByOne(prev, new) == Len(prev) + Len(new) > MaxFiles + 1

\* the count check that refuses the batch that reaches the ceiling
CountExceeded_AtCeiling(prev, new) == Len(prev) + Len(new) >= MaxFiles

\* the count check of the functional updater
CountExceeded(prev, new) == Len(prev) + Len(new) > MaxFiles

\* the updater that admits the files that still fit
AppendUpdater_Partial(prev, new) ==
    IF CountExceeded(prev, new) THEN prev \o SubSeq(new, 1, MaxFiles - Len(prev))
    ELSE prev \o new

\* the updater that puts the batch in front
AppendUpdater_Prepend(prev, new) == IF CountExceeded(prev, new) THEN prev ELSE new \o prev

\* the append to the list of the last render: setAttachments([...attachments,
\* ...newAttachments]) in place of the functional updater
AppendUpdater_Closure(prev, new) ==
    IF CountExceeded(rendered, new) THEN rendered ELSE rendered \o new

\* the append that puts the batch in the reverse of the supplied order
AppendUpdater_Reversed(prev, new) ==
    IF CountExceeded(prev, new) THEN prev
    ELSE prev \o [k \in 1..Len(new) |-> new[Len(new) + 1 - k]]

\* the append that replaces the list by the batch
AppendUpdater_Replace(prev, new) == IF CountExceeded(prev, new) THEN prev ELSE new

\* setAttachments(prev => ...): the list it returns
AppendUpdater(prev, new) == IF CountExceeded(prev, new) THEN prev ELSE prev \o new

\* the updater that keeps a size message over the count message
AppendError_SizeFirst(prev, new, err) ==
    IF err # NoError THEN err
    ELSE IF CountExceeded(prev, new) THEN CountMsg ELSE err

\* setAttachments(prev => ...): the error after it, err being the error
\* the loop left
AppendError(prev, new, err) == IF CountExceeded(prev, new) THEN CountMsg ELSE err

\* attachments.filter(att => att.id !== id)
FilterOut(list, id) == SelectSeq(list, LAMBDA att : att.id # id)

----------------------------------------------------------------------------
(* DropSurfaceController: the file list of a drop payload *)

RECURSIVE FilesOf(_, _)
FilesOf(entries, items) ==
    IF entries = <<>> THEN <<>>
    ELSE IF items /\ Head(entries).dir THEN FilesOf(Tail(entries), items)
    ELSE <<Head(entries).file>> \o FilesOf(Tail(entries), items)

\* the detection that takes no entry for a directory
HasFolder_Never(p) == FALSE

HasFolder(p) == p.items /\ \E k \in 1..Len(p.entries) : p.entries[k].dir

----------------------------------------------------------------------------
(* State *)

\* `${Date.now()}-${Math.random().toString(36).substr(2, 9)}`: nothing makes
\* the pair differ from an earlier one.  Distinct pairs are written as
\* distinct tokens <<d, k>> (file k of the d-th invocation); a generated id
\* is its own token or, while `collisions` lasts, any token of an earlier
\* or the same invocation.
FreshId(d, k) == <<d, k>>

KnownIds(d) == {FreshId(e, k) : e \in 1..d, k \in 1..MaxEntries}

NewIds(d) ==
    IF collisions = 0 THEN {[k \in 1..MaxEntries |-> FreshId(d, k)]}
    ELSE {[k \in 1..MaxEntries |-> IF k = j THEN x ELSE FreshId(d, k)] :
            j \in 1..MaxEntries, x \in KnownIds(d)}

\* the collisions among the ids of the attachments in new after index n
Repeats(new, n, d, files) ==
    Cardinality({k \in (n + 1)..Len(new) :
        \A j \in 1..Len(files) : new[k].id # FreshId(d, j)})

NoId == <<0, 0>>

\* history record: op is the operation, files the file list of the batch it
\* ran (none: empty), from and to the indices of the first and the last file
\* the step examined, done whether the batch reached its setAttachments call
\* in this step, id the id a removal was called with and err the error it
\* found; ctr is the nesting counter and folder the hasFolder flag of a
\* drop, ok whether the read that a continuation awaited resolved, target
\* the element a drag event was fired at, count the attachmentCount that a
\* submit click has logged, removed the ids that removals have been called
\* with (see Removed)
Last(op, files, from, to, done, id, err) ==
    [op |-> op, files |-> files, from |-> from, to |-> to, done |-> done,
     id |-> id, err |-> err, ctr |-> 0, folder |-> FALSE, ok |-> TRUE,
     target |-> "", count |-> 0,
     removed |-> IF op = "init" THEN {} ELSE last.removed]

\* a suspended processFiles invocation: it awaits the read of files[i];
\* new is newAttachments, d the number of the invocation
Batch(files, i, new, d) == [files |-> files, i |-> i, new |-> new, d |-> d]

RemoveAt(seq, k) == SubSeq(seq, 1, k - 1) \o SubSeq(seq, k + 1, Len(seq))

Ids(list) == {list[k].id : k \in 1..Len(list)}

Init ==
    /\ attachments = <<>>
    /\ rendered = <<>>
    /\ error = NoError
    /\ batches = <<>>
    /\ dragCounter = 0
    /\ dragOver = FALSE
    /\ drops = 0
    /\ collisions = 0
    /\ hover = {}
    /\ notified = <<>>
    /\ last = Last("init", <<>>, 0, 0, FALSE, NoId, NoError)

----------------------------------------------------------------------------
(* Operations *)

\* the effect with an empty dependency list: it runs on mount only
NotifyParent_MountOnly(list) == notified' = notified

\* useEffect(() => onAttachmentsChange(attachments), [attachments, ...]),
\* run for the render that shows list
NotifyParent(list) == notified' = list

\* the drop that counts as one more leave
ResetDrag_Decrement ==
    /\ dragCounter' = dragCounter - 1
    /\ dragOver' = IF dragCounter' = 0 THEN FALSE ELSE dragOver
    /\ hover' = {}

\* setError(null), the first statement of processFiles, on the error that
\* handleDrop left
ClearedError(err) == NoError

\* the start of handleDrop; the drop ends the drag gesture
ResetDrag ==
    /\ dragCounter' = 0
    /\ dragOver' = FALSE
    /\ hover' = {}

\* the elements a drag event can be fired at: the drop zone itself and an
\* element inside it (e.target; e.currentTarget is always the drop zone)
Targets == {"surface", "child"}

\* the history record of a drag event
DragLast(op, target) ==
    [Last(op, <<>>, 0, 0, FALSE, NoId, NoError) EXCEPT !.target = target]

\* the handler that clears the highlight on every leave
handleDragLeave_Always(target) ==
    /\ dragCounter > -MaxNesting
    /\ dragCounter' = dragCounter - 1
    /\ dragOver' = FALSE
    /\ hover' = hover \ {target}
    /\ last' = DragLast("dragleave", target)
    /\ UNCHANGED <<attachments, rendered, error, batches, drops, collisions, notified>>

handleDragEnter(target) ==
    /\ dragCounter < MaxNesting
    /\ dragCounter' = dragCounter + 1
    /\ dragOver' = IF dragCounter' = 1 THEN TRUE ELSE dragOver
    /\ hover' = hover \cup {target}
    /\ last' = DragLast("dragenter", target)
    /\ UNCHANGED <<attachments, rendered, error, batches, drops, collisions, notified>>

handleDragOver(target) ==
    /\ last' = DragLast("dragover", target)
    /\ UNCHANGED <<attachments, rendered, error, batches, dragCounter, dragOver,
                   drops, collisions, hover, notified>>

handleDragLeave(target) ==
    /\ dragCounter > -MaxNesting
    /\ dragCounter' = dragCounter - 1
    /\ dragOver' = IF dragCounter' = 0 THEN FALSE ELSE dragOver
    /\ hover' = hover \ {target}
    /\ last' = DragLast("dragleave", target)
    /\ UNCHANGED <<attachments, rendered, error, batches, drops, collisions, notified>>

\* the history record of a drop of payload p
DropLast(p, files, to, done) ==
    [Last("drop", files, 1, to, done, NoId, NoError)
       EXCEPT !.ctr = dragCounter,
              !.folder = p.items /\ \E k \in 1..Len(p.entries) : p.entries[k].dir]

\* handleDrop, with the part of processFiles that runs before its first await
HandleDrop(p) ==
    /\ ResetDrag
    /\ LET files == FilesOf(p.entries, p.items)
       IN  IF HasFolder(p) /\ files = <<>>
           THEN /\ error' = FoldersOnlyMsg
                /\ rendered' = attachments
                /\ NotifyParent(attachments)
                /\ UNCHANGED <<attachments, batches, drops, collisions>>
                /\ last' = DropLast(p, files, 0, FALSE)
           ELSE IF files = <<>>
           THEN /\ rendered' = attachments
                /\ NotifyParent(attachments)
                /\ UNCHANGED <<attachments, error, batches, drops, collisions>>
                /\ last' = DropLast(p, files, 0, FALSE)
           ELSE /\ drops < MaxDrops
                /\ drops' = drops + 1
                /\ \E ids \in NewIds(drops + 1) :
                     LET warned == IF HasFolder(p) THEN FoldersSkippedMsg ELSE error
                         r == RunLoop(files, 1, <<>>, ClearedError(warned), ids)
                     IN  /\ collisions' = collisions - Repeats(r.new, 0, drops + 1, files)
                         /\ IF r.await
                            THEN /\ Len(batches) < MaxInFlight
                                 /\ batches' = Append(batches,
                                                      Batch(files, r.i, r.new, drops + 1))
                                 /\ error' = r.err
                                 /\ rendered' = attachments
                                 /\ NotifyParent(attachments)
                                 /\ UNCHANGED attachments
                                 /\ last' = DropLast(p, files, r.i - 1, FALSE)
                            ELSE /\ attachments' = AppendUpdater(attachments, r.new)
                                 /\ error' = AppendError(attachments, r.new, r.err)
                                 /\ rendered' = attachments'
                                 /\ NotifyParent(attachments')
                                 /\ UNCHANGED batches
                                 /\ last' = DropLast(p, files, Len(files), TRUE)

\* the continuations that run in the order of the drops: a batch resumes
\* only when no earlier batch is suspended
CanResume_InOrder(k) == k = 1 /\ Len(batches) >= 1

\* the k-th suspended invocation resumes as soon as its read settles: the
\* promise callback has no other condition
CanResume(k) == k \in 1..Len(batches)

\* the continuation of processFiles when the read it awaits settles:
\* ok is whether the FileReader resolved (onload) or rejected (onerror)
ResumeRead(k, ok) ==
    /\ CanResume(k)
    /\ LET b == batches[k]
           file == b.files[b.i]
       IN  \E ids \in NewIds(b.d) :
             \* r is the run of the loop from the next file on, computed once
             \E r \in {RunLoop(b.files, b.i + 1,
                               Append(b.new, NewAttachment(file, PreviewOf(file, ok),
                                                           ids[b.i])),
                               error, ids)} :
                 /\ collisions' = collisions - Repeats(r.new, Len(b.new), b.d, b.files)
                 /\ IF r.await
                    THEN /\ batches' = [batches EXCEPT ![k] = Batch(b.files, r.i, r.new, b.d)]
                         /\ error' = r.err
                         /\ UNCHANGED attachments
                         /\ last' = [Last("read", b.files, b.i, r.i - 1, FALSE, NoId, NoError)
                                       EXCEPT !.ok = ok]
                    ELSE /\ batches' = RemoveAt(batches, k)
                         /\ attachments' = AppendUpdater(attachments, r.new)
                         /\ error' = AppendError(attachments, r.new, r.err)
                         /\ last' = [Last("read", b.files, b.i, Len(b.files), TRUE, NoId, NoError)
                                       EXCEPT !.ok = ok]
    /\ UNCHANGED <<rendered, dragCounter, dragOver, drops, hover, notified>>

\* the render React scheduled for the state set by a continuation
Render ==
    /\ rendered # attachments
    /\ rendered' = attachments
    /\ NotifyParent(attachments)
    /\ last' = Last("render", <<>>, 0, 0, FALSE, NoId, NoError)
    /\ UNCHANGED <<attachments, error, batches, dragCounter, dragOver, drops,
                   collisions, hover>>

\* history of the removals: the ids that removals have been called with.
\* An id is recorded while a generated id may still repeat an earlier one;
\* once every id to come is fresh, no recorded or later id can be generated
\* again, and the record is left as it is.
Removed(id) == IF collisions > 0 THEN last.removed \cup {id} ELSE last.removed

\* the removal that leaves the error alone
removeAttachment_KeepError(id) ==
    /\ attachments' = FilterOut(rendered, id)
    /\ error' = error
    /\ rendered' = attachments'
    /\ NotifyParent(attachments')
    /\ last' = [Last("remove", <<>>, 0, 0, FALSE, id, error)
                  EXCEPT !.removed = Removed(id)]
    /\ UNCHANGED <<batches, dragCounter, dragOver, drops, collisions, hover>>

\* the removal that clears the error only when it empties the list
removeAttachment_ClearWhenEmpty(id) ==
    /\ attachments' = FilterOut(rendered, id)
    /\ error' = IF attachments' = <<>> THEN NoError ELSE error
    /\ rendered' = attachments'
    /\ NotifyParent(attachments')
    /\ last' = [Last("remove", <<>>, 0, 0, FALSE, id, error)
                  EXCEPT !.removed = Removed(id)]
    /\ UNCHANGED <<batches, dragCounter, dragOver, drops, collisions, hover>>

\* removeAttachment(id): `attachments` is the list of the last render
removeAttachment(id) ==
    /\ attachments' = FilterOut(rendered, id)
    /\ error' = NoError
    /\ rendered' = attachments'
    /\ NotifyParent(attachments')
    /\ last' = [Last("remove", <<>>, 0, 0, FALSE, id, error)
                  EXCEPT !.removed = Removed(id)]
    /\ UNCHANGED <<batches, dragCounter, dragOver, drops, collisions, hover>>

\* the count that reads the latest list
AttachmentCount_Latest == Len(attachments)

\* attachments.length as the click handler of the submit button reads it:
\* the length of the list of the last render
AttachmentCount == Len(rendered)

\* a click on the submit button: logEvent({..., attachmentCount}), then the
\* onSubmit callback of the parent; no state of the component is set
Submit ==
    /\ last' = [Last("submit", <<>>, 0, 0, FALSE, NoId, NoError)
                  EXCEPT !.count = AttachmentCount]
    /\ UNCHANGED <<attachments, rendered, error, batches, dragCounter, dragOver,
                   drops, collisions, hover, notified>>

\* a click on the remove button of a rendered chip
ClickRemove == \E id \in Ids(rendered) : removeAttachment(id)

\* removeAttachment called with an id that no attachment carries
RemoveAbsent == removeAttachment(NoId)

\* a drop of files
Drop == \E p \in Payloads : HandleDrop(p)

\* a drop that holds a directory
DropFolder == \E p \in FolderPayloads : HandleDrop(p)

\* a pending read resolves (reader.onload)
Read == \E k \in 1..MaxInFlight : ResumeRead(k, TRUE)

\* a pending read rejects (reader.onerror)
ReadError == \E k \in 1..MaxInFlight : ResumeRead(k, FALSE)

Next == Drop \/ Read \/ Render \/ ClickRemove

Spec == Init /\ [][Next]_vars

\* the component with the scheduler's guarantee that a scheduled render runs
SpecNotify == Init /\ [][Next]_vars /\ WF_vars(Render)

\* the drag gesture: events in any order, ended by a drop
DragEnter == \E target \in Targets : handleDragEnter(target)

DragOver == \E target \in Targets : handleDragOver(target)

DragLeave == \E target \in Targets : handleDragLeave(target)

DropDragged == \E p \in DragPayloads : HandleDrop(p)

NextDrag == DragEnter \/ DragOver \/ DragLeave \/ DropDragged

SpecDrag == Init /\ [][NextDrag]_vars

\* the component when one generated id may repeat an earlier one
InitIds ==
    /\ attachments = <<>>
    /\ rendered = <<>>
    /\ error = NoError
    /\ batches = <<>>
    /\ dragCounter = 0
    /\ dragOver = FALSE
    /\ drops = 0
    /\ collisions = 1
    /\ hover = {}
    /\ notified = <<>>
    /\ last = Last("init", <<>>, 0, 0, FALSE, NoId, NoError)

DropIds == \E p \in IdPayloads : HandleDrop(p)

NextIds == DropIds \/ Read \/ Render \/ ClickRemove

SpecIds == InitIds /\ [][NextIds]_vars

\* the component with drops that hold directories
NextFolders == DropFolder \/ Read \/ Render \/ ClickRemove

SpecFolders == Init /\ [][NextFolders]_vars

\* a drop of files of the boundary sizes
DropSized == \E p \in SizePayloads : HandleDrop(p)

NextSizes == DropSized \/ Read \/ Render \/ ClickRemove

SpecSizes == Init /\ [][NextSizes]_vars

\* a drop of files that are read for a preview
DropRead == \E p \in ReadPayloads : HandleDrop(p)

\* drops whose reads resolve or reject, and the renders they schedule
NextReads == DropRead \/ Read \/ ReadError \/ Render

SpecReads == Init /\ [][NextReads]_vars

\* a drop of files of the categories and lengths that previews depend on
DropPreview == \E p \in PreviewPayloads : HandleDrop(p)

NextPreviews == DropPreview \/ Read \/ ReadError \/ Render

SpecPreviews == Init /\ [][NextPreviews]_vars

\* a drop of files that differ in their names
DropClassified == \E p \in ClassifyPayloads : HandleDrop(p)

NextClassify == DropClassified \/ Read \/ Render

SpecClassify == Init /\ [][NextClassify]_vars

\* a drop of a batch with or without preview reads
DropLive == \E p \in LivePayloads : HandleDrop(p)

NextLive == DropLive \/ Read \/ ReadError \/ ClickRemove

\* the component when every preview read that has been started settles:
\* the FileReader of each suspended invocation fires onload or onerror
SpecLive ==
    /\ Init
    /\ [][NextLive]_vars
    /\ \A k \in 1..MaxInFlight : WF_vars(ResumeRead(k, TRUE) \/ ResumeRead(k, FALSE))

\* the component with its submit button
DropSubmit == \E p \in SubmitPayloads : HandleDrop(p)

NextSubmit == DropSubmit \/ Read \/ Render \/ ClickRemove \/ Submit

SpecSubmit == Init /\ [][NextSubmit]_vars

\* the component with removeAttachment also callable on an absent id
NextApi == Next \/ RemoveAbsent

SpecApi == Init /\ [][NextApi]_vars

----------------------------------------------------------------------------
(* The component as components/landing/TaskInputBar.tsx has it: no nesting *)
(* counter, no folder detection, no placeholder check, and a taxonomy     *)
(* with the classes code and pdf                                          *)

LandingTextExts == {<<"t","x","t">>, <<"m","d">>, <<"m","a","r","k","d","o","w","n">>}

LandingCodeExts == {<<"j","s">>, <<"t","s">>, <<"t","s","x">>, <<"j","s","x">>,
                    <<"p","y">>, <<"j","a","v","a">>, <<"c","p","p">>, <<"c">>,
                    <<"h">>, <<"c","s">>, <<"r","b">>, <<"g","o">>, <<"r","s">>,
                    <<"p","h","p">>, <<"s","w","i","f","t">>, <<"k","t">>}

getFileTypeLanding(fileName) ==
    LET ext == splitPop(toLowerCase(fileName))
    IN  IF ext \in ImageExts THEN "image"
        ELSE IF ext \in LandingTextExts THEN "text"
        ELSE IF ext \in LandingCodeExts THEN "code"
        ELSE IF ext = <<"p","d","f">> THEN "pdf"
        ELSE "other"

NeedsReadLanding(file) == getFileTypeLanding(file.name) \in {"image", "text", "code"}

PreviewOfLanding(file, ok) ==
    IF ~ok THEN Undefined
    ELSE IF getFileTypeLanding(file.name) = "image" THEN Defined(DataURL(file))
    ELSE Defined(TextPreview(Content(file)))

NewAttachmentLanding(file, preview, id) ==
    [id |-> id,
     name |-> file.name,
     path |-> file.name,
     type |-> getFileTypeLanding(file.name),
     preview |-> preview,
     size |-> file.size,
     mimeType |-> IF file.type = "" THEN "application/octet-stream" ELSE file.type]

\* the for loop of processFiles: the size check is its first statement
RECURSIVE RunLoopLanding(_, _, _, _, _)
RunLoopLanding(files, i, new, err, ids) ==
    IF i > Len(files) THEN [i |-> i, new |-> new, err |-> err, await |-> FALSE]
    ELSE LET file == files[i]
         IN  IF TooLarge(file)
             THEN RunLoopLanding(files, i + 1, new, SizeMsg(file.name), ids)
             ELSE IF NeedsReadLanding(file)
                  THEN [i |-> i, new |-> new, err |-> err, await |-> TRUE]
             ELSE RunLoopLanding(files, i + 1,
                                 Append(new, NewAttachmentLanding(file, Undefined, ids[i])),
                                 err, ids)

\* the entry lists dropped on this variant; it reads dataTransfer.files
LandingSeqs == {<<Txt>>, <<Pdf>>, <<Pdf, Txt>>, <<Big, Txt>>, <<Dir>>, <<Dir, Pdf>>}

LandingPayloads == [items : {FALSE}, entries : LandingSeqs]

\* handleDrop, with the part of processFiles that runs before its first await
HandleDropLanding(p) ==
    /\ dragOver' = FALSE
    /\ hover' = {}
    /\ UNCHANGED dragCounter
    /\ LET files == FilesOf(p.entries, FALSE)
       IN  IF files = <<>>
           THEN /\ rendered' = attachments
                /\ NotifyParent(attachments)
                /\ UNCHANGED <<attachments, error, batches, drops, collisions>>
                /\ last' = DropLast(p, files, 0, FALSE)
           ELSE /\ drops < MaxDrops
                /\ drops' = drops + 1
                /\ \E ids \in NewIds(drops + 1) :
                     LET r == RunLoopLanding(files, 1, <<>>, ClearedError(error), ids)
                     IN  /\ collisions' = collisions - Repeats(r.new, 0, drops + 1, files)
                         /\ IF r.await
                            THEN /\ Len(batches) < MaxInFlight
                                 /\ batches' = Append(batches,
                                                      Batch(files, r.i, r.new, drops + 1))
                                 /\ error' = r.err
                                 /\ rendered' = attachments
                                 /\ NotifyParent(attachments)
                                 /\ UNCHANGED attachments
                                 /\ last' = DropLast(p, files, r.i - 1, FALSE)
                            ELSE /\ attachments' = AppendUpdater(attachments, r.new)
                                 /\ error' = AppendError(attachments, r.new, r.err)
                                 /\ rendered' = attachments'
                                 /\ NotifyParent(attachments')
                                 /\ UNCHANGED batches
                                 /\ last' = DropLast(p, files, Len(files), TRUE)

\* the continuation of processFiles when the read it awaits settles
ResumeReadLanding(k, ok) ==
    /\ k \in 1..Len(batches)
    /\ LET b == batches[k]
           file == b.files[b.i]
       IN  \E ids \in NewIds(b.d) :
             LET att == NewAttachmentLanding(file, PreviewOfLanding(file, ok), ids[b.i])
                 r == RunLoopLanding(b.files, b.i + 1, Append(b.new, att), error, ids)
             IN  /\ collisions' = collisions - Repeats(r.new, Len(b.new), b.d, b.files)
                 /\ IF r.await
                    THEN /\ batches' = [batches EXCEPT ![k] = Batch(b.files, r.i, r.new, b.d)]
                         /\ error' = r.err
                         /\ UNCHANGED attachments
                         /\ last' = [Last("read", b.files, b.i, r.i - 1, FALSE, NoId, NoError)
                                       EXCEPT !.ok = ok]
                    ELSE /\ batches' = RemoveAt(batches, k)
                         /\ attachments' = AppendUpdater(attachments, r.new)
                         /\ error' = AppendError(attachments, r.new, r.err)
                         /\ last' = [Last("read", b.files, b.i, Len(b.files), TRUE, NoId, NoError)
                                       EXCEPT !.ok = ok]
    /\ UNCHANGED <<rendered, dragCounter, dragOver, drops, hover, notified>>

\* handleDragEnter: the highlight is a flag without a counter
handleDragEnterLanding(target) ==
    /\ dragOver' = TRUE
    /\ hover' = hover \cup {target}
    /\ last' = DragLast("dragenter", target)
    /\ UNCHANGED <<attachments, rendered, error, batches, dragCounter, drops,
                   collisions, notified>>

\* handleDragLeave: e.currentTarget === e.target when the event was fired
\* at the drop zone itself
handleDragLeaveLanding(target) ==
    /\ dragOver' = IF target = "surface" THEN FALSE ELSE dragOver
    /\ hover' = hover \ {target}
    /\ last' = DragLast("dragleave", target)
    /\ UNCHANGED <<attachments, rendered, error, batches, dragCounter, drops,
                   collisions, notified>>

DragEnterLanding == \E target \in Targets : handleDragEnterLanding(target)

DragLeaveLanding == \E target \in Targets : handleDragLeaveLanding(target)

DropLanding == \E p \in LandingPayloads : HandleDropLanding(p)

ReadLanding == \E k \in 1..MaxInFlight : ResumeReadLanding(k, TRUE)

NextLanding ==
    \/ DragEnterLanding \/ DragLeaveLanding
    \/ DropLanding \/ ReadLanding \/ Render \/ ClickRemove

SpecLanding == Init /\ [][NextLanding]_vars

----------------------------------------------------------------------------
(* Vocabulary of the properties, stated on the observable data alone *)

SizeLimit == 10 * 1024 * 1024

CountText == <<"Maximum 5 files allowed">>

SizeText(file) == <<"File \"">> \o file.name \o <<"\" exceeds 10MB limit">>

Oversized(file) == file.size > SizeLimit

\* the files of a batch that pass the per-file checks
Survives(file) == ~(file.size = 0 /\ file.type = "") /\ file.size <= SizeLimit

Survivors(files) == SelectSeq(files, Survives)

FileNames(files) == [k \in 1..Len(files) |-> files[k].name]

Names(list) == [k \in 1..Len(list) |-> list[k].name]

\* the last n entries of a list
Tail_n(list, n) == SubSeq(list, Len(list) - n + 1, Len(list))

\* list is prev followed by entries for exactly these files, in their order
Admitted(prev, list, files) ==
    /\ Len(list) = Len(prev) + Len(files)
    /\ SubSeq(list, 1, Len(prev)) = prev
    /\ Names(Tail_n(list, Len(files))) = FileNames(files)

\* the step taken is the one in which a batch reaches its append
Completes == last'.op \in {"drop", "read"} /\ last'.done

\* the oversized files the step taken has examined
Examined == {k \in last'.from..last'.to : Oversized(last'.files[k])}

Max(S) == CHOOSE k \in S : \A j \in S : j <= k

----------------------------------------------------------------------------
(* Properties *)

\* C1: in every reachable state, whatever the interleaving of drops, read
\* completions and removals, the attachment list (the latest one and the one
\* on screen) holds at most 5 entries.
C1_AtMostFive == Len(attachments) <= 5 /\ Len(rendered) <= 5

\* a batch has just filled the list to 5 behind the entries of a batch that
\* was dropped after it, while it awaited its reads
C1_Witness ==
    /\ Len(attachments) = 5
    /\ last.op = "read" /\ last.done
    /\ attachments[1].id[1] > attachments[5].id[1]

\* C2: when a batch reaches its append and the store size plus the number of
\* its surviving files exceeds 5, nothing of the batch is appended, the
\* attachments stay exactly as they were, and the error becomes
\* "Maximum 5 files allowed".
C2_CountRejection ==
    [][(Completes /\ Len(attachments) + Len(Survivors(last'.files)) > 5)
         => (attachments' = attachments /\ error' = CountText)]_vars

\* a batch of two read files has just been refused on a non-empty list
C2_Witness ==
    /\ last.op = "read" /\ last.done
    /\ Len(Survivors(last.files)) = 2
    /\ Len(attachments) + 2 > 5
    /\ error = CountText

\* C3 as stated: every batch of at most 5 valid files raises the count by
\* its size, in order, and leaves the error unset, whatever the prior count.
C3_AnyPriorCount ==
    [][(Completes /\ Len(last'.files) <= 5
          /\ \A k \in 1..Len(last'.files) : Survives(last'.files[k]))
         => (Admitted(attachments, attachments', last'.files)
               /\ error' = <<>>)]_vars

\* C3, amended: a batch of valid files whose size, added to the count at its
\* append, stays within 5 is appended whole and in order, and its append
\* sets no error: the error is unset when the batch completes within the
\* drop, and otherwise what it was just before the append.
C3_ValidBatch ==
    [][(Completes /\ Len(attachments) + Len(last'.files) <= 5
          /\ \A k \in 1..Len(last'.files) : Survives(last'.files[k]))
         => (/\ Admitted(attachments, attachments', last'.files)
             /\ last'.op = "drop" => error' = <<>>
             /\ last'.op = "read" => error' = error)]_vars

\* a batch of two valid files has just been appended after earlier entries
C3_Witness ==
    /\ last.op = "read" /\ last.done
    /\ Len(last.files) = 2
    /\ \A k \in 1..2 : Survives(last.files[k])
    /\ Len(attachments) > 2
    /\ Names(Tail_n(attachments, 2)) = FileNames(last.files)
    /\ error = <<>>

\* C4: the ceiling is inclusive.  A batch whose survivors bring the list to
\* exactly 5 is admitted whole and its append raises no count error; a batch
\* with a survivor dropped on a list of 5 leaves the same 5 attachments and
\* sets the count error.
C4_InclusiveCeiling ==
    [][Completes =>
         LET kept == Survivors(last'.files)
         IN  /\ (Len(attachments) + Len(kept) = 5)
                  => /\ Admitted(attachments, attachments', kept)
                     /\ error' = CountText => (last'.op = "read" /\ error = CountText)
             /\ (Len(attachments) = 5 /\ Len(kept) >= 1)
                  => (attachments' = attachments /\ error' = CountText)]_vars

\* one file has just been refused by a list that holds 5
C4_Witness ==
    /\ Len(attachments) = 5
    /\ last.done
    /\ Len(Survivors(last.files)) = 1
    /\ error = CountText

\* the oversized files of a batch
OversizedIn(files) == {k \in 1..Len(files) : Oversized(files[k])}

\* C5: the size limit is inclusive at 10*1024*1024 bytes.  A file of exactly
\* that size passes the size check: it is appended whenever the count
\* allows.  No file above it, so none of one byte more, is ever in the list,
\* and a step whose last oversized file is one byte over the limit leaves,
\* unless the count message replaces it, an error that names the file and
\* contains "exceeds 10MB limit".
C5_SizeBoundary ==
    [][last'.op \in {"drop", "read"} =>
         LET files == last'.files
         IN  /\ \A j \in 1..Len(attachments') : attachments'[j].size <= SizeLimit
             /\ (Completes /\ Len(attachments) + Len(Survivors(files)) <= 5)
                  => \A k \in 1..Len(files) :
                       files[k].size = SizeLimit
                         => \E j \in (Len(attachments) + 1)..Len(attachments') :
                              /\ attachments'[j].name = files[k].name
                              /\ attachments'[j].size = SizeLimit
             /\ (/\ Examined # {}
                 /\ files[Max(Examined)].size = SizeLimit + 1
                 /\ ~(Completes /\ Len(attachments) + Len(Survivors(files)) > 5))
                  => error' = <<"File \"">> \o files[Max(Examined)].name
                                \o <<"\" exceeds 10MB limit">>]_vars

\* a batch has just completed whose file one byte over the limit is named
\* by the error, with a file of exactly the limit in the list
C5_Witness ==
    /\ last.done
    /\ \E k \in 1..Len(last.files) :
         /\ last.files[k].size = SizeLimit + 1
         /\ error = SizeText(last.files[k])
    /\ \E j \in 1..Len(attachments) : attachments[j].size = SizeLimit

\* C6 as stated: a batch with an oversized file that completes with the
\* count check passing has its other files admitted and leaves the size
\* message of its last oversized file as the error.
C6_LastOversizedVisible ==
    [][(/\ Completes
        /\ OversizedIn(last'.files) # {}
        /\ Len(attachments) + Len(Survivors(last'.files)) <= 5)
         => (/\ Admitted(attachments, attachments', Survivors(last'.files))
             /\ error' = SizeText(last'.files[Max(OversizedIn(last'.files))]))]_vars

\* C6, amended: an oversized file does not abort its batch.  The files that
\* pass the per-file checks are appended, in order, whenever their number
\* added to the count stays within 5 (the oversized ones are not counted),
\* and the error after the append is the size message of the last oversized
\* file examined since the batch last awaited a read; when none was, the
\* append leaves the error as it was.
C6_OversizedSkipped ==
    [][(/\ Completes
        /\ OversizedIn(last'.files) # {}
        /\ Len(attachments) + Len(Survivors(last'.files)) <= 5)
         => (/\ Admitted(attachments, attachments', Survivors(last'.files))
             /\ Examined # {} => error' = SizeText(last'.files[Max(Examined)])
             /\ Examined = {} => error' = error)]_vars

\* a batch with two oversized files has just had its one valid file
\* appended to a list that the whole batch would have overfilled
C6_Witness ==
    /\ last.done
    /\ Cardinality(OversizedIn(last.files)) = 2
    /\ Len(Survivors(last.files)) = 1
    /\ Len(attachments) - 1 + Len(last.files) > 5
    /\ Names(Tail_n(attachments, 1)) = FileNames(Survivors(last.files))
    /\ error = SizeText(last.files[Max(OversizedIn(last.files))])

\* C7: when a batch has an oversized file and its surviving files would push
\* the list above 5, the error after the batch completes is the count
\* message, not the size message.
C7_CountMessageWins ==
    [][(/\ Completes
        /\ OversizedIn(last'.files) # {}
        /\ Len(attachments) + Len(Survivors(last'.files)) > 5)
         => error' = CountText]_vars

\* a batch with an oversized file and a valid one has just been refused by
\* a full list
C7_Witness ==
    /\ last.done
    /\ OversizedIn(last.files) # {}
    /\ Len(Survivors(last.files)) >= 1
    /\ Len(attachments) + Len(Survivors(last.files)) > 5
    /\ error = CountText

\* the step taken is a removal by an id that the list holds / does not hold
RemovesPresent ==
    last'.op = "remove" /\ \E j \in 1..Len(attachments) : attachments[j].id = last'.id

RemovesAbsent ==
    last'.op = "remove" /\ \A j \in 1..Len(attachments) : attachments[j].id # last'.id

\* C8: removing an attachment by an id that is present lowers the count by
\* exactly 1, removes exactly the entry with that id, keeps the others in
\* their order, and clears the error.
C8_RemovePresent ==
    [][RemovesPresent
         => (/\ Len(attachments') = Len(attachments) - 1
             /\ attachments' = SelectSeq(attachments, LAMBDA att : att.id # last'.id)
             /\ error' = <<>>)]_vars

C10_ClearedOnChange == [][attachments' # attachments => error' = <<>>]_vars

\* C10, amended: the error is at any time unset or one single message.  It
\* is unset right after every removal.  A step that adds entries does not
\* clear it: it leaves the size message of the last oversized file that the
\* step examined and, when it examined none, no error after a drop and the
\* error as it was after a read.
C10_ErrorAfterChange ==
    [][/\ \/ error' \in {<<>>, CountText}
          \/ \E file \in {FileBig, FileLarge} : error' = SizeText(file)
       /\ last'.op = "remove" => error' = <<>>
       /\ (attachments' # attachments /\ last'.op # "remove")
            => (/\ Completes
                /\ Examined # {} => error' = SizeText(last'.files[Max(Examined)])
                /\ (Examined = {} /\ last'.op = "drop") => error' = <<>>
                /\ (Examined = {} /\ last'.op = "read") => error' = error)]_vars

\* a step has just appended an entry and left a size message as the error
C10_Witness ==
    /\ last.op = "read" /\ last.done
    /\ Len(Survivors(last.files)) = 1
    /\ attachments # <<>>
    /\ Names(Tail_n(attachments, 1)) = FileNames(Survivors(last.files))
    /\ \E file \in {FileBig, FileLarge} : error = SizeText(file)

\* a directory placeholder as the host hands it out
Placeholder(file) == file.size = 0 /\ file.type = ""

PlaceholdersIn(files) == {k \in 1..Len(files) : Placeholder(files[k])}

\* C11: no entry with size 0 and an empty declared type is ever stored, in
\* either variant of the component and on either way into processFiles:
\* every entry a batch appends is the entry of one of its files that is no
\* placeholder.  Placeholders are skipped silently: a step that examines
\* one and no oversized file, and meets no count violation, sets no error.
C11_NoPlaceholderStored ==
    [][last'.op \in {"drop", "read"} =>
         LET files == last'.files
         IN  /\ Completes
                  => \A j \in (Len(attachments) + 1)..Len(attachments') :
                       \E k \in 1..Len(files) :
                         /\ ~Placeholder(files[k])
                         /\ attachments'[j].name = files[k].name
             /\ (/\ \E k \in last'.from..last'.to : Placeholder(files[k])
                 /\ Examined = {}
                 /\ ~(Completes /\ Len(attachments) + Len(Survivors(files)) > 5))
                  => error' = IF last'.op = "drop" THEN <<>> ELSE error]_vars

\* C12 as stated: every attachment in the list has a size strictly greater
\* than 0 and at most 10*1024*1024 bytes.
C12_PositiveSize ==
    \A j \in 1..Len(attachments) :
        attachments[j].size > 0 /\ attachments[j].size <= SizeLimit

\* C12, amended: every attachment in the list has a size of at least 0 and
\* at most 10*1024*1024 bytes, and one of size 0 has a declared type (its
\* mimeType is not the default that stands for an empty one).
C12_SizeBounds ==
    \A j \in 1..Len(attachments) :
        /\ attachments[j].size >= 0
        /\ attachments[j].size <= SizeLimit
        /\ attachments[j].size = 0 => attachments[j].mimeType # "application/octet-stream"

\* the list holds an empty file and a file of exactly the limit, after a
\* drop of a directory with the empty file
C12_Witness ==
    /\ \E j \in 1..Len(attachments) : attachments[j].size = 0
    /\ \E j \in 1..Len(attachments) : attachments[j].size = SizeLimit
    /\ last.done
    /\ PlaceholdersIn(last.files) # {}

\* C13: attachment ids are unique: no two attachments of the list, and no
\* two that a batch has created so far, carry the same id, and a removal
\* never deletes more than one of the rendered entries.
C13_UniqueIds ==
    [][LET all == attachments' \o
                  (IF batches' = <<>> THEN <<>> ELSE batches'[1].new)
       IN  /\ \A i, j \in 1..Len(all) : i # j => all[i].id # all[j].id
           /\ last'.op = "remove" => Len(attachments') >= Len(rendered) - 1]_vars

\* C14: after any sequence of drag-enter, drag-over, drag-leave and drop
\* events, the highlighted state is true exactly when the nesting counter
\* is above 0.
C14_ActiveIffNested == dragOver <=> dragCounter > 0

\* a leave has just left one level of nesting open, and the highlight on
C14_Witness ==
    /\ last.op = "dragleave"
    /\ dragCounter = 1
    /\ dragOver
    /\ Len(attachments) >= 1

\* C15: while the pointer remains over the surface, a leave event does not
\* switch the highlight off: neither the leave of a child that was entered
\* nor the leave that is fired at the surface itself when the pointer
\* crosses into a child.  After such a leave an element of the surface is
\* still entered.
C15_NestedLeaveKeepsActive ==
    [][(/\ last'.op = "dragleave"
        /\ last'.target \in hover
        /\ hover' # {}
        /\ dragOver)
         => dragOver']_vars

\* the same, for the handlers with the nesting counter after events that
\* the host fires in pairs
C15_CounterKeepsActive ==
    [][(/\ last'.op = "dragleave"
        /\ last'.target \in hover
        /\ hover' # {}
        /\ dragOver
        /\ dragCounter = Cardinality(hover))
         => dragOver']_vars

\* C16: a drop resets the nesting counter to 0 and clears the highlighted
\* state, whatever they were before and whatever the payload holds.
C16_DropResets ==
    [][last'.op = "drop" => (dragCounter' = 0 /\ ~dragOver')]_vars

\* a drop of a directory alone has just found two levels of nesting open
C16_Witness ==
    /\ last.op = "drop"
    /\ last.ctr = 2
    /\ last.folder
    /\ last.files = <<>>
    /\ dragCounter = 0
    /\ ~dragOver

\* C17: a drop in which a directory was detected and from which no file was
\* extracted sets the error to the folders-not-supported message, starts no
\* ingestion and leaves the attachment list unchanged.
C17_FoldersOnly ==
    [][(last'.op = "drop" /\ last'.folder /\ last'.files = <<>>)
         => (/\ error' = <<"Folders are not supported, please drop files only">>
             /\ attachments' = attachments
             /\ batches' = batches
             /\ drops' = drops)]_vars

\* a directory has just been dropped on a list with an entry while a batch
\* awaits a read
C17_Witness ==
    /\ last.op = "drop" /\ last.folder /\ last.files = <<>>
    /\ error = <<"Folders are not supported, please drop files only">>
    /\ attachments # <<>>
    /\ batches # <<>>

\* C18: a drop in which a directory was detected and from which a file was
\* extracted leaves the folders-were-skipped warning as the error once the
\* drop is handled, unless a size or count violation of the batch replaces
\* it, and the files are forwarded to processFiles; a drop without a
\* directory produces no folder message.
C18_FoldersSkippedWarning ==
    [][last'.op = "drop" =>
         /\ (/\ last'.folder
             /\ last'.files # <<>>
             /\ Examined = {}
             /\ ~(Completes /\ Len(attachments) + Len(Survivors(last'.files)) > 5))
              => (/\ error' = <<"Folders were skipped, only files are supported">>
                  /\ drops' = drops + 1)
         /\ ~last'.folder
              => error' \notin {<<"Folders were skipped, only files are supported">>,
                                <<"Folders are not supported, please drop files only">>}]_vars

\* C19: after every mutation of the list the observer is called with the
\* complete list in order: every render delivers the list it shows, and
\* whenever the delivered list differs from the latest one (a batch has
\* appended and its render is scheduled), a delivery of the latest list
\* follows.
C19_ObserverNotified ==
    /\ [](notified = rendered)
    /\ (notified # attachments) ~> (notified = attachments)

\* the render after the append of a batch has just delivered a list of
\* several entries
C19_Witness ==
    /\ last.op = "render"
    /\ notified = attachments
    /\ Len(notified) >= 2

\* the step taken is the continuation of a batch after a read that failed
FailedRead == last'.op = "read" /\ ~last'.ok

\* C20: a failed preview read is not fatal.  The step that follows the
\* failure of the read of file number `from` of a batch goes on with the
\* rest of the batch: it either stops at the next file that is read, with
\* every file before it examined and the failed file kept in the batch
\* without a preview, or it reaches the append, and then the list gains one
\* entry per file that passes the per-file checks, in order, the entry of
\* the failed file being without a preview (unless the count rule rejects
\* the batch).  The error after the step is the error before it, the size
\* message of an oversized file examined in the step, or the count message
\* of a rejected batch: the failure itself sets none.
C20_FailedReadNotFatal ==
    [][FailedRead =>
        LET files == last'.files
            pos == Len(Survivors(SubSeq(files, 1, last'.from)))
            over == Len(attachments) + Len(Survivors(files)) > MaxFiles
        IN  /\ \/ error' = error
               \/ \E k \in Examined : error' = SizeText(files[k])
               \/ last'.done /\ over /\ error' = CountText
            /\ last'.done /\ over => attachments' = attachments
            /\ last'.done /\ ~over =>
                 /\ Admitted(attachments, attachments', Survivors(files))
                 /\ attachments'[Len(attachments) + pos].name = files[last'.from].name
                 /\ ~attachments'[Len(attachments) + pos].preview.defined
            /\ ~last'.done =>
                 \E k \in 1..Len(batches) :
                    /\ batches[k].files = files
                    /\ batches[k].i = last'.from
                    /\ batches'[k].files = files
                    /\ batches'[k].i > last'.from
                    /\ batches'[k].i = last'.to + 1
                    /\ Names(batches'[k].new)
                         = FileNames(Survivors(SubSeq(files, 1, last'.to)))
                    /\ batches'[k].new[pos].name = files[last'.from].name
                    /\ ~batches'[k].new[pos].preview.defined
                    /\ attachments' = attachments
    ]_vars

\* the read of a text file has failed, the document that follows it in the
\* batch has been admitted with it, the text file has no preview and no
\* error is shown
C20_Witness ==
    /\ last.op = "read"
    /\ ~last.ok
    /\ last.done
    /\ last.from < Len(last.files)
    /\ error = <<>>
    /\ Len(attachments) >= 2
    /\ \E j \in 1..(Len(attachments) - 1) :
          /\ attachments[j].type = "text"
          /\ ~attachments[j].preview.defined
          /\ attachments[j + 1].type = "document"

\* the entries that exist: those of the list and those that suspended
\* batches have created so far
Created ==
    {attachments[j] : j \in 1..Len(attachments)}
        \cup UNION {{batches[k].new[j] : j \in 1..Len(batches[k].new)} :
                      k \in 1..Len(batches)}

\* the step taken is the continuation of a batch after a read that succeeded
SucceededRead == last'.op = "read" /\ last'.ok

\* the step taken leaves, at position pos of the entries that the batch of
\* the step has created, an entry for which P holds: in the list when the
\* batch is appended, in the suspended batch otherwise
LeavesEntry(pos, P(_)) ==
    IF last'.done
    THEN Len(attachments') = Len(attachments) + Len(Survivors(last'.files))
           => P(attachments'[Len(attachments) + pos])
    ELSE \E k \in 1..Len(batches) :
            /\ batches[k].files = last'.files
            /\ batches[k].i = last'.from
            /\ batches'[k].files = last'.files
            /\ Len(batches'[k].new) >= pos
            /\ P(batches'[k].new[pos])

\* C21: preview presence follows the category.  No entry of category other
\* or document (pdf) has a preview, in the list or in a batch under way, in
\* any reachable state; and the step that follows the successful read of an
\* image leaves an entry for that image whose preview is a non-empty string.
C21_PreviewByCategory ==
    /\ [](\A e \in Created : e.type \in {"other", "document", "pdf"} => ~e.preview.defined)
    /\ [][(SucceededRead /\ getFileType(last'.files[last'.from].name) = "image")
            => LeavesEntry(Len(Survivors(SubSeq(last'.files, 1, last'.from))),
                           LAMBDA e : /\ e.name = last'.files[last'.from].name
                                      /\ e.type = "image"
                                      /\ e.preview.defined
                                      /\ StrLen(e.preview.text) > 0)]_vars

\* the read of an image has succeeded: the list holds the image with a
\* preview next to a document without one
C21_Witness ==
    /\ last.op = "read" /\ last.ok /\ last.done
    /\ \E i, j \in 1..Len(attachments) :
          /\ attachments[i].type = "document"
          /\ ~attachments[i].preview.defined
          /\ attachments[j].type = "image"
          /\ attachments[j].preview.defined
          /\ StrLen(attachments[j].preview.text) > 0

\* C22: an attachment that has been removed never reappears: in every
\* reachable state, whatever has followed the removal (the completion of a
\* pending read, the append of another batch, another removal, a render),
\* the list holds no entry whose id a removal has been called with.
C22_RemovedStaysRemoved ==
    \A j \in 1..Len(attachments) : attachments[j].id \notin last.removed

\* C23: the count check of a batch is made against the list at the instant
\* of its append.  With n the number of files of the batch that pass the
\* per-file checks and `attachments` the list just before the append,
\* whatever other batches and removals have made of it since the drop: the
\* batch is refused (list unchanged, count message) when Len(attachments) + n
\* exceeds 5, and otherwise the list grows by n entries behind the ones it
\* had.
C23_CountAtAppend ==
    [][Completes =>
        LET n == Len(Survivors(last'.files))
        IN  IF Len(attachments) + n > MaxFiles
            THEN attachments' = attachments /\ error' = CountText
            ELSE /\ Len(attachments') = Len(attachments) + n
                 /\ SubSeq(attachments', 1, Len(attachments)) = attachments]_vars

\* the batch of the first drop, dropped on an empty list, has just been
\* refused: while it awaited its read the second drop filled the list
C23_Witness ==
    /\ last.op = "read" /\ last.done
    /\ drops = 2
    /\ Len(attachments) = 5
    /\ \A j \in 1..5 : attachments[j].id[1] = 2
    /\ Len(Survivors(last.files)) <= 5
    /\ error = CountText

\* C24 as stated: the attachmentCount logged by a submit click is the
\* number of attachments in the store at the moment of the click.
C24_SubmitCountsStore ==
    [][last'.op = "submit" => last'.count = Len(attachments)]_vars

\* C24, amended: the attachmentCount logged by a submit click is the number
\* of attachments of the list as last rendered, the one whose chips are on
\* screen at the click.
C24_SubmitCountsRendered ==
    [][last'.op = "submit" => last'.count = Len(rendered)]_vars

\* a submit click has logged the count of the rendered list while the
\* append of a batch has still to be rendered
C24_Witness ==
    /\ last.op = "submit"
    /\ last.count >= 1
    /\ last.count = Len(rendered)
    /\ Len(attachments) > Len(rendered)

\* the extension of a name: what follows its last '.', in lower case, and
\* the empty string when the name holds no '.'
ExtensionOf(name) ==
    LET dots == {k \in 1..Len(name) : name[k] = "."}
    IN  IF dots = {} THEN <<>>
        ELSE toLowerCase(SubSeq(name, Max(dots) + 1, Len(name)))

ImageExtensions ==
    {<<"p","n","g">>, <<"j","p","g">>, <<"j","p","e","g">>, <<"g","i","f">>,
     <<"w","e","b","p">>, <<"s","v","g">>, <<"b","m","p">>}

CodeExtensions ==
    {<<"j","s">>, <<"t","s">>, <<"t","s","x">>, <<"j","s","x">>, <<"p","y">>,
     <<"j","a","v","a">>, <<"c","p","p">>, <<"c">>, <<"h">>, <<"c","s">>,
     <<"r","b">>, <<"g","o">>, <<"r","s">>, <<"p","h","p">>,
     <<"s","w","i","f","t">>, <<"k","t">>}

Categories == {"image", "text", "code", "pdf", "other"}

\* the category that the tests assert for an extension
CategoryOf(ext) ==
    IF ext \in ImageExtensions THEN "image"
    ELSE IF ext \in {<<"t","x","t">>, <<"m","d">>} THEN "text"
    ELSE IF ext \in CodeExtensions THEN "code"
    ELSE IF ext = <<"p","d","f">> THEN "pdf"
    ELSE "other"

\* the names that hold a '.'
Dotted(name) == \E k \in 1..Len(name) : name[k] = "."

\* C25: every entry created from a file whose name has an extension carries
\* the category that the tests assert for that extension, taken without
\* regard to case: image for the image extensions, text for txt and md,
\* code for the code extensions, pdf for pdf, other for the rest; the
\* category is always one of these five.
C25_TestedCategories ==
    \A e \in Created :
        /\ e.type \in Categories
        /\ Dotted(e.name) => e.type = CategoryOf(ExtensionOf(e.name))

\* C30: a file whose name holds no '.' has the empty extension and is
\* classified as other.
C30_NoDotIsOther ==
    \A e \in Created : ~Dotted(e.name) => e.type = "other"

\* the files of a batch that get a preview read
ReadForPreview(file) == Survives(file) /\ getFileType(file.name) \in {"image", "text"}

\* C26: the preview reads of one batch are concurrent and independent.  A
\* suspended batch is reading its file number i, the files before it have
\* been dealt with and those after it have not been touched: the claim
\* requires that no file that gets a preview read is among the latter, i.e.
\* that no read waits for the read of another file to settle.
C26_ReadsIndependent ==
    \A k \in 1..Len(batches) :
        \A j \in (batches[k].i + 1)..Len(batches[k].files) :
            ~ReadForPreview(batches[k].files[j])

\* the entries of the list after the step that the list before it lacks
Appearing == {attachments'[j] : j \in 1..Len(attachments')}
                 \ {attachments[j] : j \in 1..Len(attachments)}

C28_EntriesImmutable ==
    [][\A i \in 1..Len(attachments) : \A j \in 1..Len(attachments') :
          attachments[i].id = attachments'[j].id => attachments[i] = attachments'[j]]_vars

\* a text of n characters 'x', and its first 500 characters followed by the
\* marker "..."
TextOf(n) == IF n = 0 THEN <<>> ELSE <<[c |-> "x", n |-> n]>>

CutAndMarked == <<[c |-> "x", n |-> 500], [c |-> ".", n |-> 3]>>

\* C29: the preview of a text (or code) entry whose read succeeded is the
\* whole content when the content has at most 500 characters, and the first
\* 500 characters followed by "..." when it has more.  The content of a
\* file of the model is `size` characters, so the preview of an entry of
\* size n is n characters for n <= 500 and 503 characters, ending in the
\* marker, for n > 500.
C29_TextPreviewCut ==
    \A e \in Created :
        (e.type = "text" /\ e.preview.defined)
            => /\ e.size <= 500 => e.preview.text = TextOf(e.size)
               /\ e.size > 500 => e.preview.text = CutAndMarked
               /\ StrLen(e.preview.text) = IF e.size <= 500 THEN e.size ELSE 503

\* the list holds a text of exactly 500 characters with its whole content as
\* preview and a text of 501 characters with a cut and marked preview
C29_Witness ==
    \E i, j \in 1..Len(attachments) :
        /\ attachments[i].type = "text" /\ attachments[i].size = 500
        /\ attachments[i].preview.defined
        /\ StrLen(attachments[i].preview.text) = 500
        /\ attachments[j].type = "text" /\ attachments[j].size = 501
        /\ attachments[j].preview.defined
        /\ StrLen(attachments[j].preview.text) = 503

\* C31: a removal deletes only the entry with the matching id, also when a
\* batch has completed since the last render: every entry of the list
\* before the removal that has another id, those just appended included, is
\* in the list after it.
C31_RemovalKeepsOthers ==
    [][last'.op = "remove"
         => \A i \in 1..Len(attachments) :
               attachments[i].id # last'.id
                  => \E j \in 1..Len(attachments') : attachments'[j] = attachments[i]]_vars

\* the entries of a batch in the list are in the order their files were
\* supplied (the id of an entry is <<number of its drop, number of its file>>)
InSuppliedOrder ==
    \A i, j \in 1..Len(attachments) :
        (i < j /\ attachments[i].id[1] = attachments[j].id[1])
            => attachments[i].id[2] < attachments[j].id[2]

\* the entries of a batch are next to each other in the list
Contiguous ==
    \A i, j \in 1..Len(attachments) :
        (i < j /\ attachments[i].id[1] = attachments[j].id[1])
            => \A m \in i..j : attachments[m].id[1] = attachments[i].id[1]

\* C32 as stated: the list follows the order of the drops: the entries of a
\* batch dropped earlier precede those of a batch dropped later, and each
\* batch is contiguous and in the supplied order.
C32_DropOrder ==
    /\ \A i, j \in 1..Len(attachments) :
          i < j => attachments[i].id[1] <= attachments[j].id[1]
    /\ InSuppliedOrder
    /\ Contiguous

\* C32, amended: the list follows the order of the appends.  The entries
\* that a step adds stand behind every entry that the list already had, so
\* the batches are in the order in which they reached their append, which
\* for a batch that awaits preview reads is later than its drop; the
\* entries of each batch are contiguous and in the supplied order.
C32_AppendOrder ==
    /\ [](InSuppliedOrder /\ Contiguous)
    /\ [][\A i, j \in 1..Len(attachments') :
            (attachments'[i] \notin Appearing /\ attachments'[j] \in Appearing)
                => i < j]_vars

\* the single file of the second drop stands before the two files of the
\* first drop, whose reads finished after it was appended
C32_Witness ==
    /\ Len(attachments) = 3
    /\ attachments[1].id = <<2, 1>>
    /\ attachments[2].id = <<1, 1>>
    /\ attachments[3].id = <<1, 2>>

\* the step taken is an ingestion step: a drop, or the continuation of a
\* batch after a read
Ingests == last'.op \in {"drop", "read"}

\* C33: ingestion never removes, replaces or reorders existing entries:
\* over every ingestion step, whether it appends, refuses the batch or
\* leaves it waiting for a read, the list before the step is a prefix of the
\* list after it.
C33_IngestionKeepsPrefix ==
    [][Ingests => /\ Len(attachments') >= Len(attachments)
                  /\ SubSeq(attachments', 1, Len(attachments)) = attachments]_vars

\* a drop has just put its file behind the two entries of an earlier drop
C33_Witness ==
    /\ last.op = "drop" /\ last.done
    /\ Len(attachments) = 3
    /\ attachments[1].id[1] = 1
    /\ attachments[2].id[1] = 1
    /\ attachments[3].id[1] = 2

\* C35: after any sequence of drag-enter, drag-leave and drop events the
\* nesting counter is not negative, and a drag-enter into the idle surface
\* (nothing entered, highlight off) turns the highlight on.
C35_CounterNeverNegative ==
    [][/\ dragCounter' >= 0
       /\ (last'.op = "dragenter" /\ hover = {} /\ ~dragOver) => dragOver']_vars

\* the batch of drop number d is suspended at a preview read
Pending(d) == \E k \in 1..Len(batches) : batches[k].d = d

\* C34: every drop that forwards a file reaches its append.  A batch that
\* is suspended at a preview read can resume whenever that read settles,
\* with either outcome, whatever other batches are suspended and whatever
\* removals have happened; and if every read that is started settles, the
\* batch of every drop leaves the suspended batches, which it does only
\* through its append step (appending its survivors or setting the count
\* message).
C34_BatchesComplete ==
    /\ [](\A k \in 1..Len(batches) :
            ENABLED ResumeRead(k, TRUE) /\ ENABLED ResumeRead(k, FALSE))
    /\ \A d \in 1..MaxDrops : Pending(d) ~> ~Pending(d)

\* both drops have reached their append, the later one after a removal, and
\* nothing is suspended
C34_Witness ==
    /\ last.op = "read" /\ last.done
    /\ drops = 2
    /\ batches = <<>>
    /\ \E j \in 1..Len(attachments) : attachments[j].id[1] = 2
    /\ \A j \in 1..Len(attachments) : attachments[j].id[1] # 1

====
